---- MODULE Spec2Model ----
(***************************************************************************)
(* A model of the Conan UI backend (backend/main.py): the shared ConanAPI  *)
(* handle set up at startup, the upstream registry it reads, the five      *)
(* package endpoints computed from what the registry returns, and the      *)
(* three status endpoints.                                                 *)
(*                                                                         *)
(* Every endpoint is an `async def` without any await, so a handler runs   *)
(* to completion on the event loop: one action per handler.  A request is  *)
(* taken when the server is idle, its response is kept in `response`, and  *)
(* Deliver hands it to the caller and drops the per-request data.  Where   *)
(* several requests are in flight, `tasks` holds one task per client: the  *)
(* get_conan_api dependency is a plain `def`, which FastAPI runs in its    *)
(* thread pool before it calls the handler, so a task takes two steps.     *)
(***************************************************************************)
EXTENDS Integers, Sequences, FiniteSets, TLC

VARIABLES
    conan_api,   \* the global ConanAPI handle: None or "ConanAPI"
    lifecycle,   \* "starting" before lifespan ran initialize_conan_api, then "running"
    remotes,     \* the remote names the Conan configuration knows
    registry,    \* the upstream registry: [up, refs]
    request,     \* the arguments of the request in progress, or NoRequest
    response,    \* the response of the request in progress, or NoResponse
    tasks        \* the request tasks of the event loop, one per client

vars == <<conan_api, lifecycle, remotes, registry, request, response, tasks>>

-----------------------------------------------------------------------------
(* Bounds of the model. *)

\* The longest sequence of references the registry returns.
MaxRefs == 3

\* The largest number of optional query parameters one request supplies.
MaxSupplied == 2

\* The number of clients with a request in flight at once.
MaxClients == 2

-----------------------------------------------------------------------------
(* Python values. *)

\* Python's None; no string of the model is spelled like it.
None == "<None>"

\* bool(x) of an Optional[str]: None and "" are falsy.
Truthy(x) == x # None /\ x # ""

\* An empty dict, and an empty list.
EmptyDict == <<>>
EmptyList == <<>>

\* d.get(k, default) of a dict d.
Get(d, k, default) == IF k \in DOMAIN d THEN d[k] ELSE default

\* The code points of the strings the model uses; Python compares and sorts
\* str values by code point, position by position.
Ord(s) ==
    CASE s = "" -> <<>>
      [] s = "1" -> <<49>>
      [] s = "2" -> <<50>>
      [] s = "9" -> <<57>>
      [] s = "10" -> <<49, 48>>
      [] s = "1.0" -> <<49, 46, 48>>
      [] s = "2.0" -> <<50, 46, 48>>
      [] s = "10.0" -> <<49, 48, 46, 48>>
      [] s = "foo" -> <<102, 111, 111>>
      [] s = "Zlib" -> <<90, 108, 105, 98>>
      [] s = "bar" -> <<98, 97, 114>>
      [] s = "alice" -> <<97, 108, 105, 99, 101>>
      [] s = "bob" -> <<98, 111, 98>>
      [] s = "stable" -> <<115, 116, 97, 98, 108, 101>>
      [] s = "dev" -> <<100, 101, 118>>
      [] s = "Linux" -> <<76, 105, 110, 117, 120>>
      [] s = "Windows" -> <<87, 105, 110, 100, 111, 119, 115>>
      [] s = "x86_64" -> <<120, 56, 54, 95, 54, 52>>
      [] s = "armv8" -> <<97, 114, 109, 118, 56>>
      [] s = "gcc" -> <<103, 99, 99>>
      [] s = "msvc" -> <<109, 115, 118, 99>>
      [] s = "11" -> <<49, 49>>
      [] s = "193" -> <<49, 57, 51>>
      [] s = "Release" -> <<82, 101, 108, 101, 97, 115, 101>>
      [] s = "Debug" -> <<68, 101, 98, 117, 103>>
      [] s = "o" -> <<111>>
      [] s = "LIB" -> <<76, 73, 66>>
      [] s = "nope" -> <<110, 111, 112, 101>>

RECURSIVE SeqLess(_, _)
SeqLess(a, b) ==
    IF a = <<>> THEN b # <<>>
    ELSE IF b = <<>> THEN FALSE
    ELSE IF Head(a) < Head(b) THEN TRUE
    ELSE IF Head(a) > Head(b) THEN FALSE
    ELSE SeqLess(Tail(a), Tail(b))

\* s < t of two str values.
StrLess(s, t) == SeqLess(Ord(s), Ord(t))

\* min(S) of a non-empty set of str values.
StrMin(S) == CHOOSE s \in S : \A t \in S : t = s \/ StrLess(s, t)

\* max(S) of a non-empty set of str values.
StrMax(S) == CHOOSE s \in S : \A t \in S : t = s \/ StrLess(t, s)

\* sorted(S, reverse=True) of a set of str values.
RECURSIVE SortedDesc(_)
SortedDesc(S) ==
    IF S = {} THEN <<>>
    ELSE LET greatest == StrMax(S) IN <<greatest>> \o SortedDesc(S \ {greatest})

\* reversed order of a sequence.
RECURSIVE Reverse(_)
Reverse(s) == IF s = <<>> THEN <<>> ELSE Reverse(Tail(s)) \o <<Head(s)>>

\* sorted(S) of a set of str values.
Sorted(S) == Reverse(SortedDesc(S))

\* The elements of a sequence.
Range(s) == {s[i] : i \in DOMAIN s}

\* str.lower() on code points: A-Z become a-z.
Lower(codes) ==
    [i \in DOMAIN codes |-> IF codes[i] >= 65 /\ codes[i] <= 90 THEN codes[i] + 32 ELSE codes[i]]

\* `sub in s` on code points.
Contains(sub, s) ==
    \E i \in 0..(Len(s) - Len(sub)) : SubSeq(s, i + 1, i + Len(sub)) = sub

\* A slice that takes the element at `end` too.
SliceInclusive(s, start, end) ==
    SubSeq(s, start + 1, IF end + 1 < Len(s) THEN end + 1 ELSE Len(s))

\* s[start:end] of a list, Python's clipped slice (0-based, end exclusive).
Slice(s, start, end) ==
    SubSeq(s, start + 1, IF end < Len(s) THEN end ELSE Len(s))

-----------------------------------------------------------------------------
(* Configuration (main.py:32-51). *)

\* CUSTOM_REMOTE_NAME, read from the environment.
CUSTOM_REMOTE_NAME == "conan-custom"

\* AVAILABLE_REMOTES = [CUSTOM_REMOTE_NAME]
AVAILABLE_REMOTES == {CUSTOM_REMOTE_NAME}

-----------------------------------------------------------------------------
(* The upstream registry: what conan_api.list returns.                     *)
(*                                                                         *)
(* A reference is a RecipeReference (name, version, user, channel,         *)
(* revision, timestamp) together with what the registry holds for it:      *)
(* prefs, the binaries package_list.prefs lists (package_id and package    *)
(* revision), and configs, the dict packages_configurations returns, keyed *)
(* by package_id (fetch_fails: that call raises instead).                  *)

Config(settings, options, requires) ==
    ("settings" :> settings) @@ ("options" :> options) @@ ("requires" :> requires)

CfgLinux ==
    Config(("os" :> "Linux") @@ ("arch" :> "x86_64") @@ ("compiler" :> "gcc")
               @@ ("compiler.version" :> "11") @@ ("build_type" :> "Release"),
           ("shared" :> "True"), <<"zlib/1.3">>)

CfgWindows ==
    Config(("os" :> "Windows") @@ ("arch" :> "armv8") @@ ("compiler" :> "msvc")
               @@ ("compiler.version" :> "193") @@ ("build_type" :> "Debug"),
           ("shared" :> "False"), <<>>)

\* A configuration whose settings name the os alone and that has no
\* "options" and no "requires" key.
CfgOsOnly == ("settings" :> ("os" :> "Linux"))

\* A configuration without a "settings" key.
CfgNoSettings == ("options" :> ("shared" :> "True"))

\* A configuration that is an empty mapping.
CfgEmpty == EmptyDict

\* A configuration with an empty os value and a compiler without a version.
CfgBlankOs ==
    Config(("os" :> "") @@ ("compiler" :> "gcc"), EmptyDict, <<>>)

Pref(package_id, revision) == [package_id |-> package_id, revision |-> revision]

Ref(name, version, user, channel, revision, timestamp, prefs, configs, fetch_fails) ==
    [name |-> name, version |-> version, user |-> user, channel |-> channel,
     revision |-> revision, timestamp |-> timestamp,
     prefs |-> prefs, configs |-> configs, fetch_fails |-> fetch_fails]

\* foo/1.0#1: two binaries, each with its configuration.
RefFooR1 ==
    Ref("foo", "1.0", None, None, "1", 1, <<Pref("p1", "b1"), Pref("p2", "b1")>>,
        ("p1" :> CfgLinux) @@ ("p2" :> CfgWindows), FALSE)

\* foo/1.0#2: two binaries, the first without a configuration record.
RefFooR2 ==
    Ref("foo", "1.0", None, None, "2", 2, <<Pref("p1", "b2"), Pref("p2", "b1")>>,
        ("p2" :> CfgOsOnly), FALSE)

\* foo/1.0#10: a recipe without binaries.
RefFooR10 ==
    Ref("foo", "1.0", None, None, "10", 3, <<>>, EmptyDict, FALSE)

\* foo/1.0@alice/stable#2: one binary, and a configuration record for a
\* binary the registry does not list.
RefFooAlice ==
    Ref("foo", "1.0", "alice", "stable", "2", 4, <<Pref("p1", "b1")>>,
        ("p1" :> CfgWindows) @@ ("p3" :> CfgBlankOs), FALSE)

\* foo/1.0@alice: no channel and no revision.
RefFooNoRev ==
    Ref("foo", "1.0", "alice", None, None, 5, <<Pref("p2", "b1")>>,
        ("p2" :> CfgNoSettings), FALSE)

\* foo/1.0@bob/dev#2: the configuration fetch raises.
RefFooBroken ==
    Ref("foo", "1.0", "bob", "dev", "2", 6, <<Pref("p1", "b1")>>,
        ("p1" :> CfgLinux), TRUE)

\* foo/2.0#1: one binary whose configuration is an empty mapping.
RefFoo2 ==
    Ref("foo", "2.0", None, None, "1", 7, <<Pref("p1", "b1")>>,
        ("p1" :> CfgEmpty), FALSE)

\* foo/10.0#1: a recipe without binaries.
RefFoo10 ==
    Ref("foo", "10.0", None, None, "1", 8, <<>>, EmptyDict, FALSE)

\* Zlib/1.0@alice/stable#1: two binaries.
RefZlib ==
    Ref("Zlib", "1.0", "alice", "stable", "1", 9, <<Pref("p1", "b1"), Pref("p2", "b2")>>,
        ("p1" :> CfgLinux) @@ ("p2" :> CfgLinux), FALSE)

\* bar/2.0#9: one binary.
RefBar ==
    Ref("bar", "2.0", None, None, "9", 10, <<Pref("p1", "b1")>>,
        ("p1" :> CfgWindows), FALSE)

\* RecipeReference.__eq__: the keys of package_list.refs() are references
\* that differ in name, version, user or channel, or in two defined revisions.
SameKey(r, s) ==
    /\ r.name = s.name /\ r.version = s.version
    /\ r.user = s.user /\ r.channel = s.channel
    /\ (r.revision = None \/ s.revision = None \/ r.revision = s.revision)

\* The sequences of at most MaxRefs references of a catalogue that
\* package_list.refs() can hold: no two of them the same key.
RefSeqs(catalogue) ==
    UNION {
        {s \in [1..n -> catalogue] :
            \A i, j \in 1..n : i # j => ~SameKey(s[i], s[j])} : n \in 0..MaxRefs}

-----------------------------------------------------------------------------
(* Requests and responses. *)

NoRequest == [endpoint |-> "none"]
NoResponse == [status |-> 0, raised |-> None, code |-> 0, calls |-> <<>>, body |-> None]

\* A client's task: idle, or a request accepted, resolved (its dependency
\* gave it the handle) or answered.
IdleTask == [phase |-> "idle", args |-> NoRequest, response |-> NoResponse]
NoTasks == [c \in 1..MaxClients |-> IdleTask]

\* The arguments of a handler; a parameter the endpoint does not have, or
\* that the caller left out, is None.
Args(endpoint, remote_name, package_name, version) ==
    [endpoint |-> endpoint, remote_name |-> remote_name,
     package_name |-> package_name, version |-> version,
     recipe_revision |-> None, user |-> None, channel |-> None,
     os |-> None, arch |-> None, compiler |-> None,
     compiler_version |-> None, build_type |-> None,
     package_id |-> None, q |-> "", page |-> 1, per_page |-> 20]

\* The optional query parameters of the binaries and configuration endpoints.
OptionalParams ==
    {"recipe_revision", "user", "channel", "os", "arch", "compiler",
     "compiler_version", "build_type", "package_id"}

Supplied(args) == {p \in OptionalParams : args[p] # None}

\* What a handler's body ends with: a returned body, or a raised exception.
Returned(calls, body) == [raised |-> None, code |-> 200, calls |-> calls, body |-> body]
Raised(exception, code, calls) ==
    [raised |-> exception, code |-> code, calls |-> calls, body |-> None]

\* The try/except around every handler body: `except ConanException` and
\* `except Exception` both raise HTTPException(500), and HTTPException is
\* an Exception.
Boundary(outcome) ==
    IF outcome.raised = None
    THEN [status |-> 200, raised |-> None, code |-> 200,
          calls |-> outcome.calls, body |-> outcome.body]
    ELSE [status |-> 500, raised |-> outcome.raised, code |-> outcome.code,
          calls |-> outcome.calls, body |-> None]

\* get_conan_api, the dependency FastAPI resolves before the handler runs.
Unavailable ==
    [status |-> 503, raised |-> "HTTPException", code |-> 503,
     calls |-> <<>>, body |-> None]

\* validate_remote_name: the status of the HTTPException it raises, or 0.
validate_remote_name(remote_name) ==
    IF ~Truthy(remote_name) THEN 400
    ELSE IF remote_name \notin AVAILABLE_REMOTES THEN 400
    ELSE IF remote_name \notin remotes THEN 404
    ELSE 0

\* str(ref) and str(pref), kept as the parts the string is made of.
RefPath(ref) ==
    [name |-> ref.name, version |-> ref.version, user |-> ref.user,
     channel |-> ref.channel, revision |-> ref.revision,
     package_id |-> None, prev |-> None]
PrefPath(ref, pref) ==
    [name |-> ref.name, version |-> ref.version, user |-> ref.user,
     channel |-> ref.channel, revision |-> ref.revision,
     package_id |-> pref.package_id, prev |-> pref.revision]

-----------------------------------------------------------------------------
(* list_packages (main.py:372-446). *)

\* The fold over package_list.refs(): packages_dict in insertion order.  A
\* new name gets the reference's version as latest_version, the number of
\* references of that name as total_versions and the reference's timestamp;
\* a name seen before gets the version when it compares greater.
RECURSIVE GroupByName(_, _, _)
GroupByName(rest, refs, packages) ==
    IF rest = <<>> THEN packages
    ELSE LET ref == Head(rest)
             seen == {i \in DOMAIN packages : packages[i].name = ref.name}
         IN  IF seen = {}
             THEN GroupByName(Tail(rest), refs,
                    Append(packages,
                           [name |-> ref.name,
                            latest_version |-> ref.version,
                            total_versions |->
                                Cardinality({i \in DOMAIN refs : refs[i].name = ref.name}),
                            created |-> ref.timestamp]))
             ELSE GroupByName(Tail(rest), refs,
                    [i \in DOMAIN packages |->
                        IF i \in seen /\ StrLess(packages[i].latest_version, ref.version)
                        THEN [packages[i] EXCEPT !.latest_version = ref.version]
                        ELSE packages[i]])

\* The search filter: q.lower() in name.lower(), applied when q is not empty.
SearchFilter(packages, q) ==
    IF q = "" THEN packages
    ELSE SelectSeq(packages, LAMBDA pkg : Contains(Lower(Ord(q)), Lower(Ord(pkg.name))))

\* packages_list.sort(key=lambda p: p.name.lower()): a stable sort.
RECURSIVE InsertPackage(_, _)
InsertPackage(pkg, sorted) ==
    IF sorted = <<>> THEN <<pkg>>
    ELSE IF SeqLess(Lower(Ord(pkg.name)), Lower(Ord(Head(sorted).name)))
    THEN <<pkg>> \o sorted
    ELSE <<Head(sorted)>> \o InsertPackage(pkg, Tail(sorted))

RECURSIVE SortPackages(_)
SortPackages(packages) ==
    IF packages = <<>> THEN <<>>
    ELSE InsertPackage(packages[Len(packages)],
                       SortPackages(SubSeq(packages, 1, Len(packages) - 1)))

PackagesList(refs, q) == SortPackages(SearchFilter(GroupByName(refs, refs, <<>>), q))

PackagesBody(refs, args) ==
    [packages |-> Slice(PackagesList(refs, args.q),
                        (args.page - 1) * args.per_page,
                        (args.page - 1) * args.per_page + args.per_page),
     total |-> Len(PackagesList(refs, args.q)),
     page |-> args.page,
     per_page |-> args.per_page]

list_packages(args) ==
    IF validate_remote_name(args.remote_name) # 0
    THEN Raised("HTTPException", validate_remote_name(args.remote_name), <<>>)
    ELSE IF ~registry.up
    THEN Raised("ConanException", 500, <<"select">>)
    ELSE Returned(<<"select">>, PackagesBody(registry.refs, args))

-----------------------------------------------------------------------------
(* get_package_versions (main.py:448-522). *)

\* ConanPackageVariant of a reference.
Variant(ref) ==
    [user |-> ref.user, channel |-> ref.channel, path |-> RefPath(ref),
     created |-> ref.timestamp, size |-> None]

\* The variants one reference appends: one for every binary of
\* packages_info, or one for the recipe when there is none.
RefVariants(ref) ==
    IF ref.prefs # <<>>
    THEN [i \in DOMAIN ref.prefs |-> Variant(ref)]
    ELSE <<Variant(ref)>>

\* The fold over package_list.refs(): versions_dict in insertion order.
RECURSIVE GroupByVersion(_, _, _)
GroupByVersion(rest, package_name, versions) ==
    IF rest = <<>> THEN versions
    ELSE LET ref == Head(rest)
             seen == {i \in DOMAIN versions : versions[i].version = ref.version}
         IN  IF ref.name # package_name
             THEN GroupByVersion(Tail(rest), package_name, versions)
             ELSE IF seen = {}
             THEN GroupByVersion(Tail(rest), package_name,
                    Append(versions, [version |-> ref.version,
                                      variants |-> RefVariants(ref)]))
             ELSE GroupByVersion(Tail(rest), package_name,
                    [i \in DOMAIN versions |->
                        IF i \in seen
                        THEN [versions[i] EXCEPT !.variants = @ \o RefVariants(ref)]
                        ELSE versions[i]])

\* versions_list.sort(key=lambda v: v.version, reverse=True): a stable sort.
RECURSIVE InsertVersion(_, _)
InsertVersion(group, sorted) ==
    IF sorted = <<>> THEN <<group>>
    ELSE IF StrLess(Head(sorted).version, group.version)
    THEN <<group>> \o sorted
    ELSE <<Head(sorted)>> \o InsertVersion(group, Tail(sorted))

RECURSIVE SortVersions(_)
SortVersions(groups) ==
    IF groups = <<>> THEN <<>>
    ELSE InsertVersion(groups[Len(groups)],
                       SortVersions(SubSeq(groups, 1, Len(groups) - 1)))

VersionsList(refs, package_name) ==
    SortVersions([i \in DOMAIN GroupByVersion(refs, package_name, <<>>) |->
        [version |-> GroupByVersion(refs, package_name, <<>>)[i].version,
         variants |-> GroupByVersion(refs, package_name, <<>>)[i].variants,
         total_variants |-> Len(GroupByVersion(refs, package_name, <<>>)[i].variants)]])

VersionsBody(refs, args) ==
    [package_name |-> args.package_name,
     versions |-> VersionsList(refs, args.package_name),
     total_versions |-> Len(VersionsList(refs, args.package_name))]

get_package_versions(args) ==
    IF validate_remote_name(args.remote_name) # 0
    THEN Raised("HTTPException", validate_remote_name(args.remote_name), <<>>)
    ELSE IF ~registry.up
    THEN Raised("ConanException", 500, <<"select">>)
    ELSE Returned(<<"select">>, VersionsBody(registry.refs, args))

-----------------------------------------------------------------------------
(* get_package_binaries (main.py:693-877). *)

\* all_refs: the references of the package version, in enumeration order.
AllRefs(refs, args) ==
    SelectSeq(refs, LAMBDA r : r.name = args.package_name /\ r.version = args.version)

AllRevisions(all_refs) == {r.revision : r \in {x \in Range(all_refs) : Truthy(x.revision)}}
AllUsers(all_refs) == {r.user : r \in {x \in Range(all_refs) : Truthy(x.user)}}
AllChannels(all_refs) == {r.channel : r \in {x \in Range(all_refs) : Truthy(x.channel)}}

\* latest_revision = sorted_revisions[0] if sorted_revisions else None
LatestRevision(all_refs) ==
    LET sorted_revisions == SortedDesc(AllRevisions(all_refs))
    IN  IF sorted_revisions # <<>> THEN sorted_revisions[1] ELSE None

\* A resolver that ignores the explicit revision.
TargetRevisionLatestOnly(args, all_refs) == LatestRevision(all_refs)

\* target_revision = recipe_revision or latest_revision
TargetRevision(args, all_refs) ==
    IF Truthy(args.recipe_revision) THEN args.recipe_revision
    ELSE LatestRevision(all_refs)

\* The three `continue` tests of the reference filter.
KeepRef(ref, target_revision, args) ==
    /\ ~(Truthy(target_revision) /\ ref.revision # target_revision)
    /\ ~(args.user # None /\ ref.user # args.user)
    /\ ~(args.channel # None /\ ref.channel # args.channel)

FilteredRefs(all_refs, args) ==
    LET target_revision == TargetRevision(args, all_refs)
    IN  SelectSeq(all_refs, LAMBDA r : KeepRef(r, target_revision, args))

\* pkg_configs of a reference: {} when packages_configurations raises.
PkgConfigs(ref) == IF ref.fetch_fails THEN EmptyDict ELSE ref.configs

\* pkg_config of a binary: the configuration with its package_id, or {}.
PkgConfig(pkg_configs, package_id) ==
    IF package_id \in DOMAIN pkg_configs THEN pkg_configs[package_id] ELSE EmptyDict

\* A filter that keeps a binary when any one supplied predicate matches.
SettingsPassAny(settings, args) ==
    \/ \A p \in {"os", "arch", "compiler", "compiler_version", "build_type"} :
          ~Truthy(args[p])
    \/ Truthy(args.os) /\ Get(settings, "os", None) = args.os
    \/ Truthy(args.arch) /\ Get(settings, "arch", None) = args.arch
    \/ Truthy(args.compiler) /\ Get(settings, "compiler", None) = args.compiler
    \/ Truthy(args.compiler_version)
          /\ Get(settings, "compiler.version", None) = args.compiler_version
    \/ Truthy(args.build_type) /\ Get(settings, "build_type", None) = args.build_type

\* The five `continue` tests of the settings filter.
SettingsPass(settings, args) ==
    /\ ~(Truthy(args.os) /\ Get(settings, "os", None) # args.os)
    /\ ~(Truthy(args.arch) /\ Get(settings, "arch", None) # args.arch)
    /\ ~(Truthy(args.compiler) /\ Get(settings, "compiler", None) # args.compiler)
    /\ ~(Truthy(args.compiler_version)
            /\ Get(settings, "compiler.version", None) # args.compiler_version)
    /\ ~(Truthy(args.build_type) /\ Get(settings, "build_type", None) # args.build_type)

Binary(ref, pref, pkg_config) ==
    [package_id |-> pref.package_id, user |-> ref.user, channel |-> ref.channel,
     revision |-> pref.revision, recipe_revision |-> ref.revision,
     settings |-> Get(pkg_config, "settings", EmptyDict),
     options |-> Get(pkg_config, "options", EmptyDict),
     requires |-> Get(pkg_config, "requires", EmptyList),
     created |-> ref.timestamp, path |-> PrefPath(ref, pref)]

RecipeOnly(ref) ==
    [package_id |-> "recipe-only", user |-> ref.user, channel |-> ref.channel,
     revision |-> None, recipe_revision |-> ref.revision,
     settings |-> EmptyDict, options |-> EmptyDict, requires |-> EmptyList,
     created |-> ref.timestamp, path |-> RefPath(ref)]

\* The binaries one reference adds: those of packages_info that pass the
\* settings filter, or the recipe-only entry when packages_info is empty.
RECURSIVE PrefBinaries(_, _, _, _)
PrefBinaries(ref, prefs, pkg_configs, args) ==
    IF prefs = <<>> THEN <<>>
    ELSE LET pkg_config == PkgConfig(pkg_configs, Head(prefs).package_id)
             rest == PrefBinaries(ref, Tail(prefs), pkg_configs, args)
         IN  IF SettingsPass(Get(pkg_config, "settings", EmptyDict), args)
             THEN <<Binary(ref, Head(prefs), pkg_config)>> \o rest
             ELSE rest

\* A join that drops the binaries without a configuration record.
RefBinariesConfiguredOnly(ref, args) ==
    IF ref.prefs # <<>>
    THEN PrefBinaries(ref,
                      SelectSeq(ref.prefs,
                                LAMBDA pref : pref.package_id \in DOMAIN PkgConfigs(ref)),
                      PkgConfigs(ref), args)
    ELSE <<RecipeOnly(ref)>>

RefBinaries(ref, args) ==
    IF ref.prefs # <<>>
    THEN PrefBinaries(ref, ref.prefs, PkgConfigs(ref), args)
    ELSE <<RecipeOnly(ref)>>

RECURSIVE Binaries(_, _)
Binaries(filtered_refs, args) ==
    IF filtered_refs = <<>> THEN <<>>
    ELSE RefBinaries(Head(filtered_refs), args) \o Binaries(Tail(filtered_refs), args)

FilteredBy(args, recipe_revision) ==
    [recipe_revision |-> recipe_revision, user |-> args.user, channel |-> args.channel,
     os |-> args.os, arch |-> args.arch, compiler |-> args.compiler,
     compiler_version |-> args.compiler_version, build_type |-> args.build_type]

BinariesBody(all_refs, args) ==
    IF all_refs = <<>>
    THEN [binaries |-> <<>>,
          revision_info |-> [recipe_revisions |-> <<>>, users |-> <<>>,
                             channels |-> <<>>, latest_revision |-> None],
          total_binaries |-> 0,
          filtered_by |-> FilteredBy(args, args.recipe_revision)]
    ELSE LET binaries == Binaries(FilteredRefs(all_refs, args), args)
         IN  [binaries |-> binaries,
              revision_info |-> [recipe_revisions |-> SortedDesc(AllRevisions(all_refs)),
                                 users |-> Sorted(AllUsers(all_refs)),
                                 channels |-> Sorted(AllChannels(all_refs)),
                                 latest_revision |-> LatestRevision(all_refs)],
              total_binaries |-> Len(binaries),
              filtered_by |-> FilteredBy(args, TargetRevision(args, all_refs))]

\* The upstream calls of the body: select, then one configuration fetch for
\* every filtered reference.
BinariesCalls(all_refs, args) ==
    <<"select">> \o [i \in 1..Len(FilteredRefs(all_refs, args)) |-> "packages_configurations"]

\* A handler without the try/except around packages_configurations.
get_package_binaries_fetch_unguarded(args) ==
    IF validate_remote_name(args.remote_name) # 0
    THEN Raised("HTTPException", validate_remote_name(args.remote_name), <<>>)
    ELSE IF ~registry.up
    THEN Raised("ConanException", 500, <<"select">>)
    ELSE IF \E r \in Range(FilteredRefs(AllRefs(registry.refs, args), args)) : r.fetch_fails
    THEN Raised("ConanException", 500, <<"select", "packages_configurations">>)
    ELSE Returned(BinariesCalls(AllRefs(registry.refs, args), args),
                  BinariesBody(AllRefs(registry.refs, args), args))

get_package_binaries(args) ==
    IF validate_remote_name(args.remote_name) # 0
    THEN Raised("HTTPException", validate_remote_name(args.remote_name), <<>>)
    ELSE IF ~registry.up
    THEN Raised("ConanException", 500, <<"select">>)
    ELSE LET all_refs == AllRefs(registry.refs, args)
         IN  Returned(BinariesCalls(all_refs, args), BinariesBody(all_refs, args))

-----------------------------------------------------------------------------
(* get_package_configuration (main.py:524-608). *)

\* The registry's references with the name, version, user and channel of
\* the request.
SameRecipe(args) ==
    {r \in Range(registry.refs) :
        /\ r.name = args.package_name /\ r.version = args.version
        /\ r.user = args.user /\ r.channel = args.channel}

\* conan_api.list.latest_recipe_revision: the newest of the revisions the
\* registry holds for the recipe, or None.
LatestRecipeRevision(args) ==
    IF {r \in SameRecipe(args) : r.revision # None} = {} THEN None
    ELSE (CHOOSE r \in {x \in SameRecipe(args) : x.revision # None} :
            \A x \in SameRecipe(args) : x.timestamp <= r.timestamp).revision

\* The revision of the reference the handler goes on with.
ResolvedRevision(args) ==
    IF Truthy(args.recipe_revision) THEN args.recipe_revision
    ELSE LatestRecipeRevision(args)

\* The upstream calls made before the package_id test.
ResolveCalls(args) ==
    IF Truthy(args.recipe_revision) THEN <<>> ELSE <<"latest_recipe_revision">>

\* The reference packages_configurations is asked about; the call raises
\* when the registry does not hold it.
TargetRefs(args) == {r \in SameRecipe(args) : r.revision = ResolvedRevision(args)}

ConfigurationDetail(args, ref, config) ==
    [name |-> args.package_name, version |-> args.version,
     user |-> args.user, channel |-> args.channel,
     settings |-> Get(config, "settings", EmptyDict),
     options |-> Get(config, "options", EmptyDict),
     requires |-> Get(config, "requires", EmptyList),
     path |-> [RefPath(ref) EXCEPT !.package_id = args.package_id]]

get_package_configuration(args) ==
    IF validate_remote_name(args.remote_name) # 0
    THEN Raised("HTTPException", validate_remote_name(args.remote_name), <<>>)
    ELSE IF ~Truthy(args.recipe_revision) /\ ~registry.up
    THEN Raised("ConanException", 500, ResolveCalls(args))
    ELSE IF ~Truthy(args.recipe_revision) /\ LatestRecipeRevision(args) = None
    THEN Raised("HTTPException", 404, ResolveCalls(args))
    ELSE IF ~Truthy(args.package_id)
    THEN Raised("HTTPException", 400, ResolveCalls(args))
    ELSE IF \/ ~registry.up
            \/ TargetRefs(args) = {}
            \/ \E r \in TargetRefs(args) : r.fetch_fails
    THEN Raised("ConanException", 500, ResolveCalls(args) \o <<"packages_configurations">>)
    ELSE LET ref == CHOOSE r \in TargetRefs(args) : TRUE
         IN  IF /\ args.package_id \in DOMAIN ref.configs
                /\ ref.configs[args.package_id] # EmptyDict
             THEN Returned(ResolveCalls(args) \o <<"packages_configurations">>,
                           ConfigurationDetail(args, ref, ref.configs[args.package_id]))
             ELSE Raised("HTTPException", 404,
                         ResolveCalls(args) \o <<"packages_configurations">>)

-----------------------------------------------------------------------------
(* get_package_filter_options (main.py:610-691). *)

\* The settings of every configuration fetched for the references of the
\* package version; a reference whose fetch raises is skipped (`continue`).
FetchedSettings(all_refs) ==
    UNION {{Get(ref.configs[id], "settings", EmptyDict) : id \in DOMAIN ref.configs} :
              ref \in {r \in Range(all_refs) : ~r.fetch_fails}}

\* The values added to one set: settings[key] wherever settings.get(key) is truthy.
SettingValues(all_settings, key) ==
    {settings[key] : settings \in {x \in all_settings : Truthy(Get(x, key, None))}}

\* compiler_versions_map: a key for every compiler seen with a truthy
\* compiler.version, holding the versions seen with it.
CompilerVersionsMap(all_settings) ==
    LET versioned == {x \in all_settings : Truthy(Get(x, "compiler", None))
                                          /\ Truthy(Get(x, "compiler.version", None))}
    IN  [compiler \in {x["compiler"] : x \in versioned} |->
            Sorted({x["compiler.version"] : x \in {y \in versioned : y["compiler"] = compiler}})]

FilterOptionsBody(all_refs) ==
    [filter_options |->
        [os |-> Sorted(SettingValues(FetchedSettings(all_refs), "os")),
         arch |-> Sorted(SettingValues(FetchedSettings(all_refs), "arch")),
         compiler |-> Sorted(SettingValues(FetchedSettings(all_refs), "compiler")),
         build_type |-> Sorted(SettingValues(FetchedSettings(all_refs), "build_type"))],
     compiler_versions |-> CompilerVersionsMap(FetchedSettings(all_refs))]

\* The upstream calls of the body: select, then one configuration fetch for
\* every reference of the package version.
FilterOptionsCalls(all_refs) ==
    <<"select">> \o [i \in 1..Len(all_refs) |-> "packages_configurations"]

get_package_filter_options(args) ==
    IF validate_remote_name(args.remote_name) # 0
    THEN Raised("HTTPException", validate_remote_name(args.remote_name), <<>>)
    ELSE IF ~registry.up
    THEN Raised("ConanException", 500, <<"select">>)
    ELSE Returned(FilterOptionsCalls(AllRefs(registry.refs, args)),
                  FilterOptionsBody(AllRefs(registry.refs, args)))

-----------------------------------------------------------------------------
(* root, health_check and list_repositories (main.py:313-370). *)

\* get_supported_remotes: the remotes of AVAILABLE_REMOTES, each available
\* when conan_api.remotes.get finds it.
SupportedRemotes ==
    {[name |-> name, available |-> name \in remotes] : name \in AVAILABLE_REMOTES}

\* root does not depend on get_conan_api: it reads the handle itself and
\* asks for the remotes only when there is one.
root ==
    Returned(IF conan_api # None THEN <<"remotes.get">> ELSE <<>>,
             [conan_api_available |-> conan_api # None,
              available_remotes |-> AVAILABLE_REMOTES,
              default_remote |-> CUSTOM_REMOTE_NAME,
              configured_remotes |->
                  IF conan_api # None
                  THEN Cardinality({r \in SupportedRemotes : r.available})
                  ELSE 0])

health_check ==
    Returned(<<"remotes.list">>,
             [status |-> "healthy", conan_api |-> "available",
              remotes |-> Cardinality(remotes)])

list_repositories ==
    Returned(<<"remotes.get">>,
             [repositories |-> SupportedRemotes, default |-> CUSTOM_REMOTE_NAME])

-----------------------------------------------------------------------------
(* The requests the model sends. *)

FilterOptionsRequests(remote_names, package_names, versions) ==
    {Args("filter-options", remote_name, package_name, version) :
        remote_name \in remote_names, package_name \in package_names,
        version \in versions}

RemoteNames == {CUSTOM_REMOTE_NAME, "", "other"}

BinariesRequests(remote_names, package_names, versions) ==
    {a \in [endpoint : {"binaries"}, remote_name : remote_names,
            package_name : package_names, version : versions,
            recipe_revision : {None, "", "1", "2", "9"},
            user : {None, "", "alice"}, channel : {None, "", "stable"},
            os : {None, "", "Linux"}, arch : {None, "x86_64"},
            compiler : {None, "gcc"}, compiler_version : {None, "11"},
            build_type : {None, "Release"},
            package_id : {None}, q : {""}, page : {1}, per_page : {20}] :
        Cardinality(Supplied(a)) <= MaxSupplied}

ConfigurationRequests(remote_names, package_names, versions) ==
    {a \in [endpoint : {"configuration"}, remote_name : remote_names,
            package_name : package_names, version : versions,
            recipe_revision : {None, "", "2", "9"},
            user : {None, "alice"}, channel : {None, "stable"},
            os : {None}, arch : {None}, compiler : {None},
            compiler_version : {None}, build_type : {None},
            package_id : {None, "", "p1", "p3", "p9"},
            q : {""}, page : {1}, per_page : {20}] :
        Cardinality(Supplied(a)) <= MaxSupplied}

PackagesRequests(remote_names) ==
    {[Args("packages", remote_name, None, None)
        EXCEPT !.q = q, !.page = page, !.per_page = per_page] :
        remote_name \in remote_names, q \in {"", "o", "LIB"},
        page \in {1, 2, 3}, per_page \in {1, 2, 20}}

VersionsRequests(remote_names, package_names) ==
    {Args("versions", remote_name, package_name, None) :
        remote_name \in remote_names, package_name \in package_names}

-----------------------------------------------------------------------------
(* Actions. *)

\* lifespan runs initialize_conan_api: ConanAPI() is built or raises, and
\* the custom remote is added when its credentials are configured and
\* remotes.add does not raise.
Startup ==
    /\ lifecycle = "starting"
    /\ lifecycle' = "running"
    /\ \E api_ok \in BOOLEAN, remote_ok \in BOOLEAN :
        /\ conan_api' = IF api_ok THEN "ConanAPI" ELSE None
        /\ remotes' = IF api_ok /\ remote_ok
                      THEN remotes \cup {CUSTOM_REMOTE_NAME} ELSE remotes
    /\ UNCHANGED <<registry, request, response, tasks>>

\* A request whose handler runs whether or not there is a handle.
HandleWithoutDependency(args, outcome) ==
    /\ request = NoRequest
    /\ request' = args
    /\ response' = Boundary(outcome)
    /\ UNCHANGED <<conan_api, lifecycle, remotes, registry, tasks>>

\* One request: get_conan_api raises 503 before the handler is called;
\* otherwise the handler runs with its arguments inside its try/except.
Handle(args, outcome) ==
    /\ request = NoRequest
    /\ IF conan_api = None
       THEN /\ request' = [endpoint |-> args.endpoint]
            /\ response' = Unavailable
       ELSE /\ request' = args
            /\ response' = Boundary(outcome)
    /\ UNCHANGED <<conan_api, lifecycle, remotes, registry, tasks>>

GetPackageBinaries(args) == Handle(args, get_package_binaries(args))

GetPackageFilterOptions(args) == Handle(args, get_package_filter_options(args))

GetPackageConfiguration(args) == Handle(args, get_package_configuration(args))

ListPackages(args) == Handle(args, list_packages(args))

GetPackageVersions(args) == Handle(args, get_package_versions(args))

\* GET /: the one endpoint without the get_conan_api dependency.
Root ==
    /\ request = NoRequest
    /\ request' = Args("root", None, None, None)
    /\ response' = Boundary(root)
    /\ UNCHANGED <<conan_api, lifecycle, remotes, registry, tasks>>

HealthCheck == Handle(Args("health", None, None, None), health_check)

ListRepositories == Handle(Args("repositories", None, None, None), list_repositories)

\* The response goes to the caller; nothing of the request is kept.
Deliver ==
    /\ request # NoRequest
    /\ request' = NoRequest
    /\ response' = NoResponse
    /\ UNCHANGED <<conan_api, lifecycle, remotes, registry, tasks>>

-----------------------------------------------------------------------------
(* Specifications. *)

\* The registry states over a catalogue: unreachable, or holding a sequence
\* of its references.
Registries(catalogue) ==
    {[up |-> FALSE, refs |-> <<>>]} \cup {[up |-> TRUE, refs |-> s] : s \in RefSeqs(catalogue)}

\* The process as loaded: no handle yet.
Loaded(catalogue) ==
    /\ conan_api = None
    /\ lifecycle = "starting"
    /\ remotes = {}
    /\ registry \in Registries(catalogue)
    /\ request = NoRequest
    /\ response = NoResponse
    /\ tasks = NoTasks

\* The process after a startup that built the handle and added the remote.
Serving(catalogue) ==
    /\ conan_api = "ConanAPI"
    /\ lifecycle = "running"
    /\ remotes = {CUSTOM_REMOTE_NAME}
    /\ registry \in Registries(catalogue)
    /\ request = NoRequest
    /\ response = NoResponse
    /\ tasks = NoTasks

\* The references of foo/1.0, and one of another version.
VersionCatalogue ==
    {RefFooR1, RefFooR2, RefFooR10, RefFooAlice, RefFooNoRev, RefFooBroken, RefFoo2}

InitBinaries == Serving(VersionCatalogue)

NextBinaries ==
    \/ \E args \in BinariesRequests({CUSTOM_REMOTE_NAME}, {"foo"}, {"1.0"}) :
            GetPackageBinaries(args)
    \/ \E args \in FilterOptionsRequests({CUSTOM_REMOTE_NAME}, {"foo"}, {"1.0", "2.0"}) :
            GetPackageFilterOptions(args)
    \/ \E args \in ConfigurationRequests({CUSTOM_REMOTE_NAME}, {"foo"}, {"1.0", "2.0"}) :
            GetPackageConfiguration(args)
    \/ Deliver

\* The endpoints of one package version, served after a successful startup.
SpecBinaries == InitBinaries /\ [][NextBinaries]_vars

\* References of three package names.
PackageCatalogue ==
    {RefFooR1, RefFooR2, RefFooR10, RefFooAlice, RefFooNoRev, RefFooBroken,
     RefFoo2, RefFoo10, RefZlib, RefBar}

InitCatalog == Serving(PackageCatalogue)

NextCatalog ==
    \/ \E args \in PackagesRequests({CUSTOM_REMOTE_NAME}) : ListPackages(args)
    \/ \E args \in VersionsRequests({CUSTOM_REMOTE_NAME}, {"foo", "Zlib", "nope"}) :
            GetPackageVersions(args)
    \/ Deliver

\* The package list and the version list, served after a successful startup.
SpecCatalog == InitCatalog /\ [][NextCatalog]_vars

\* A few references of one package.
SmallCatalogue == {RefFooR1, RefFooBroken, RefFoo2}

Init == Loaded(SmallCatalogue)

Next ==
    \/ Startup
    \/ \E args \in PackagesRequests(RemoteNames) : ListPackages(args)
    \/ \E args \in VersionsRequests(RemoteNames, {"foo", "nope"}) : GetPackageVersions(args)
    \/ \E args \in ConfigurationRequests(RemoteNames, {"foo"}, {"1.0", "2.0"}) :
            GetPackageConfiguration(args)
    \/ \E args \in FilterOptionsRequests(RemoteNames, {"foo"}, {"1.0"}) :
            GetPackageFilterOptions(args)
    \/ \E args \in BinariesRequests(RemoteNames, {"foo"}, {"1.0"}) :
            GetPackageBinaries(args)
    \/ Root
    \/ HealthCheck
    \/ ListRepositories
    \/ Deliver

\* The whole service: startup, every endpoint, every remote name.
Spec == Init /\ [][Next]_vars

-----------------------------------------------------------------------------
(* Properties of list_packages and get_package_versions.                   *)

PackagesReturned == request.endpoint = "packages" /\ response.status = 200
VersionsReturned == request.endpoint = "versions" /\ response.status = 200

\* The references of a name, by their place in the enumeration.
Named(name) == {i \in DOMAIN registry.refs : registry.refs[i].name = name}

RECURSIVE SumTotalVariants(_)
SumTotalVariants(versions) ==
    IF versions = <<>> THEN 0
    ELSE Head(versions).total_variants + SumTotalVariants(Tail(versions))

\* No two places of a sequence hold the same key.
Unique(s, Key(_)) == \A i, j \in DOMAIN s : Key(s[i]) = Key(s[j]) => i = j

NameOf(pkg) == pkg.name
VersionOf(group) == group.version
UserChannelOf(variant) == <<variant.user, variant.channel>>

\* C3 (as claimed): the total_variants of the version groups of a name add
\* up to the number of references of that name.
C3_VariantsSumToReferences ==
    VersionsReturned =>
        SumTotalVariants(response.body.versions)
            = Cardinality(Named(request.package_name))

\* C4 (as claimed): one package entry per name, one version group per
\* version, and in a version group one variant per (user, channel).
C4_GroupingKeysUnique ==
    /\ PackagesReturned => Unique(response.body.packages, NameOf)
    /\ VersionsReturned =>
          /\ Unique(response.body.versions, VersionOf)
          /\ \A i \in DOMAIN response.body.versions :
                Unique(response.body.versions[i].variants, UserChannelOf)

\* C5 (as claimed): total_versions of a package entry is the number of
\* distinct versions among the references of its name, which is what the
\* version list reports as total_versions.
C5_TotalVersionsCountsDistinct ==
    /\ PackagesReturned =>
          \A i \in DOMAIN response.body.packages :
              response.body.packages[i].total_versions
                  = Cardinality({registry.refs[k].version :
                                    k \in Named(response.body.packages[i].name)})
    /\ VersionsReturned =>
          response.body.total_versions
              = Cardinality({registry.refs[k].version : k \in Named(request.package_name)})

-----------------------------------------------------------------------------
(* Properties of the outcome of a request.                                 *)

\* C6 (as claimed): a validation error raised by the handler reaches the
\* caller as 400, a not-found as 404, and 500 is the status of a failed
\* registry call alone.
C6_OutcomeKindPreserved ==
    /\ (response.raised = "HTTPException" /\ response.code \in {400, 404})
          => response.status = response.code
    /\ response.status = 500 => response.raised = "ConanException"

\* C7 (as claimed): a request that ends with a validation error has made no
\* call to the registry.
C7_ValidationBeforeRegistry ==
    (response.raised = "HTTPException" /\ response.code = 400)
        => response.calls = <<>>

-----------------------------------------------------------------------------
(* Properties of get_package_binaries and get_package_filter_options.      *)

\* The setting predicates of the binaries endpoint and the setting each targets.
SettingPredicates == {"os", "arch", "compiler", "compiler_version", "build_type"}
SettingKey(p) == IF p = "compiler_version" THEN "compiler.version" ELSE p

\* A binaries, or filter-options, request that got past validation and
\* reached a reachable registry.
BinariesServed ==
    /\ request.endpoint = "binaries"
    /\ response.status # 503
    /\ validate_remote_name(request.remote_name) = 0
    /\ registry.up
FilterOptionsServed ==
    /\ request.endpoint = "filter-options"
    /\ response.status # 503
    /\ validate_remote_name(request.remote_name) = 0
    /\ registry.up

BinariesReturned == request.endpoint = "binaries" /\ response.status = 200

NoSettingPredicate(args) == \A p \in SettingPredicates : ~Truthy(args[p])

\* The reference a returned path belongs to.
RefOf(path) == [path EXCEPT !.package_id = None, !.prev = None]

\* The references of the requested package version, as the registry holds them.
Matching == {r \in Range(registry.refs) :
                r.name = request.package_name /\ r.version = request.version}
MatchingRevisions == {r.revision : r \in {x \in Matching : x.revision \notin {None, ""}}}
NewestRevision == IF MatchingRevisions = {} THEN None ELSE StrMax(MatchingRevisions)

\* The references the reference filter of the request retains.
Retained == Range(FilteredRefs(AllRefs(registry.refs, request), request))

EmptyMetadata(b) ==
    b.settings = EmptyDict /\ b.options = EmptyDict /\ b.requires = EmptyList

Emitted(ref, pref) ==
    \E i \in DOMAIN response.body.binaries :
        response.body.binaries[i].path = PrefPath(ref, pref)

EmittedEmpty(ref, pref) ==
    \E i \in DOMAIN response.body.binaries :
        /\ response.body.binaries[i].path = PrefPath(ref, pref)
        /\ response.body.binaries[i].package_id = pref.package_id
        /\ EmptyMetadata(response.body.binaries[i])

\* C1 (as claimed): every returned entry has, for each supplied (non-empty)
\* setting predicate, a setting of that name equal to the predicate -- also
\* the entries produced for references without binaries.
C1_ReturnedEntriesMatchPredicates ==
    BinariesReturned =>
        \A i \in DOMAIN response.body.binaries :
            \A p \in SettingPredicates :
                Truthy(request[p]) =>
                    /\ SettingKey(p) \in DOMAIN response.body.binaries[i].settings
                    /\ response.body.binaries[i].settings[SettingKey(p)] = request[p]

\* The binaries of the retained references that have no entry in the
\* configuration map fetched for their reference.
UnconfiguredPrefs(ref) ==
    {ref.prefs[i] : i \in {j \in DOMAIN ref.prefs :
                              ref.prefs[j].package_id \notin DOMAIN PkgConfigs(ref)}}

\* C2 (as claimed): a listed binary of a retained reference that has no
\* configuration record is in the response with empty settings, options and
\* requires, whatever the request.
C2_UnconfiguredNeverOmitted ==
    BinariesReturned =>
        \A r \in Retained : \A pref \in UnconfiguredPrefs(r) : EmittedEmpty(r, pref)

\* C2 (amended): such a binary is in the response with empty settings,
\* options and requires when no non-empty setting predicate is supplied, and
\* is left out as a non-match when one is.
C2_UnconfiguredEmittedUnlessFiltered ==
    BinariesReturned =>
        \A r \in Retained : \A pref \in UnconfiguredPrefs(r) :
            IF NoSettingPredicate(request)
            THEN EmittedEmpty(r, pref)
            ELSE ~Emitted(r, pref)

C2_Witness ==
    /\ BinariesReturned
    /\ NoSettingPredicate(request)
    /\ \E r \in Retained : \E pref \in UnconfiguredPrefs(r) :
          ~r.fetch_fails /\ EmittedEmpty(r, pref)

\* What C8 says a user, or channel, predicate retains.
ClaimedMatch(value, predicate) ==
    \/ predicate = None
    \/ predicate = "" /\ value = None
    \/ predicate \notin {None, ""} /\ value = predicate

\* C8 (as claimed): the references behind the returned binaries are those of
\* the target revision whose user and channel match the predicates, where an
\* unset predicate matches all, an empty one the absent value, and any other
\* the equal value.  (Without setting predicates every retained reference
\* has an entry in the response.)
C8_EmptyPredicateRetainsAbsent ==
    (BinariesReturned /\ NoSettingPredicate(request)) =>
        {RefOf(response.body.binaries[i].path) : i \in DOMAIN response.body.binaries}
            = {RefPath(r) : r \in
                  {x \in Matching :
                      /\ ~(Truthy(response.body.filtered_by.recipe_revision)
                              /\ x.revision # response.body.filtered_by.recipe_revision)
                      /\ ClaimedMatch(x.user, request.user)
                      /\ ClaimedMatch(x.channel, request.channel)}}

\* The parts of C9, for a reading `explicit` of "the recipeRevision is supplied".
TargetIs(explicit) == IF explicit THEN request.recipe_revision ELSE NewestRevision

C9_Holds(explicit) ==
    BinariesServed =>
        /\ response.status = 200
        /\ \A i \in DOMAIN response.body.binaries :
              response.body.binaries[i].recipe_revision = TargetIs(explicit)
        /\ (explicit /\ request.recipe_revision \notin MatchingRevisions) =>
              /\ response.body.binaries = <<>>
              /\ response.body.total_binaries = 0
              /\ response.body.revision_info.recipe_revisions = SortedDesc(MatchingRevisions)
              /\ response.body.revision_info.latest_revision = NewestRevision
              /\ response.body.revision_info.users
                    = Sorted({r.user : r \in {x \in Matching : x.user # None}})
              /\ response.body.revision_info.channels
                    = Sorted({r.channel : r \in {x \in Matching : x.channel # None}})

\* C9 (as claimed): the target revision is the recipeRevision whenever the
\* caller supplied one, else the latest; every returned binary is of the
\* target revision; an unmatched explicit revision gives an empty list and
\* the revision info of all references.
C9_SuppliedRevisionIsTarget == C9_Holds(request.recipe_revision # None)

\* C9 (amended): the same with a recipeRevision supplied as the empty string
\* counted as not supplied: then the latest revision is the target.
C9_NonEmptyRevisionIsTarget == C9_Holds(Truthy(request.recipe_revision))

C9_Witness ==
    /\ BinariesReturned
    /\ Truthy(request.recipe_revision)
    /\ MatchingRevisions # {}
    /\ request.recipe_revision \notin MatchingRevisions
    /\ response.body.binaries = <<>>
    /\ response.body.revision_info.recipe_revisions # <<>>

\* The retained references whose configuration fetch raises, and the
\* registry's references had no fetch raised.
BrokenRetained == {r \in Retained : r.fetch_fails}
Repaired(refs) == [i \in DOMAIN refs |-> [refs[i] EXCEPT !.fetch_fails = FALSE]]
OfOthers(binaries) ==
    SelectSeq(binaries, LAMBDA b : RefOf(b.path) \notin {RefPath(r) : r \in BrokenRetained})

C10_OthersUnchanged ==
    OfOthers(response.body.binaries)
        = OfOthers(Binaries(FilteredRefs(Repaired(AllRefs(registry.refs, request)), request),
                            request))

C10_FilterOptionsSkipBroken ==
    FilterOptionsServed =>
        /\ response.status = 200
        /\ response.body
              = FilterOptionsBody(SelectSeq(AllRefs(registry.refs, request),
                                            LAMBDA r : ~r.fetch_fails))

\* C10 (as claimed): a failing configuration fetch leaves the request
\* successful, the binaries of that reference are emitted with empty
\* settings, options and requires, the binaries of the other references are
\* what they are without the failure, and filter options lose only that
\* reference's contribution.
C10_FailedFetchEmitsEmpty ==
    /\ BinariesServed =>
          /\ response.status = 200
          /\ \A r \in BrokenRetained : \A i \in DOMAIN r.prefs : EmittedEmpty(r, r.prefs[i])
          /\ C10_OthersUnchanged
    /\ C10_FilterOptionsSkipBroken

\* C10 (amended): the binaries of the failing reference carry empty
\* settings, options and requires: they are emitted when no non-empty setting
\* predicate is supplied and left out as non-matches when one is.
C10_FailedFetchDegrades ==
    /\ BinariesServed =>
          /\ response.status = 200
          /\ \A r \in BrokenRetained : \A i \in DOMAIN r.prefs :
                IF NoSettingPredicate(request)
                THEN EmittedEmpty(r, r.prefs[i])
                ELSE ~Emitted(r, r.prefs[i])
          /\ C10_OthersUnchanged
    /\ C10_FilterOptionsSkipBroken

C10_Witness ==
    /\ BinariesReturned
    /\ \E r \in BrokenRetained : \E i \in DOMAIN r.prefs : EmittedEmpty(r, r.prefs[i])
    /\ \E s \in Retained \ BrokenRetained : \E i \in DOMAIN s.prefs :
          Emitted(s, s.prefs[i]) /\ s.configs # EmptyDict

-----------------------------------------------------------------------------
(* Properties of the settings filter.                                      *)

\* The binaries the join produces for a reference before the settings filter
\* is applied: one entry per listed binary, or the recipe-only entry.
JoinedBinaries(ref) ==
    IF ref.prefs = <<>> THEN <<RecipeOnly(ref)>>
    ELSE [i \in DOMAIN ref.prefs |->
            Binary(ref, ref.prefs[i],
                   PkgConfig(PkgConfigs(ref), ref.prefs[i].package_id))]

RECURSIVE Joined(_)
Joined(filtered_refs) ==
    IF filtered_refs = <<>> THEN <<>>
    ELSE JoinedBinaries(Head(filtered_refs)) \o Joined(Tail(filtered_refs))

\* The request of the state with one setting predicate taken away, and the
\* binaries the handler returns for it over the same registry.
Without(p) == [request EXCEPT ![p] = None]
BinariesOf(args) ==
    BinariesBody(AllRefs(registry.refs, args), args).binaries

\* s is t with some entries left out, the others in their order.
RECURSIVE IsSubSeq(_, _)
IsSubSeq(s, t) ==
    IF s = <<>> THEN TRUE
    ELSE IF t = <<>> THEN FALSE
    ELSE IF Head(s) = Head(t) THEN IsSubSeq(Tail(s), Tail(t))
    ELSE IsSubSeq(s, Tail(t))

\* C11: over one registry state and one revision/user/channel, the binaries
\* returned with a set of setting predicates plus one more are among those
\* returned without that one, so there are never more of them; and with no
\* setting predicate the returned list is the whole list the join produces
\* for the retained references, in its order.
C11_FilterMonotonic ==
    BinariesReturned =>
        /\ \A p \in SettingPredicates :
              request[p] # None =>
                  /\ IsSubSeq(response.body.binaries, BinariesOf(Without(p)))
                  /\ response.body.total_binaries <= Len(BinariesOf(Without(p)))
        /\ NoSettingPredicate(request) =>
              response.body.binaries
                  = Joined(FilteredRefs(AllRefs(registry.refs, request), request))

\* A setting predicate that leaves some of the binaries and takes some away.
C11_Witness ==
    /\ BinariesReturned
    /\ \E p \in SettingPredicates :
          /\ Truthy(request[p])
          /\ response.body.binaries # <<>>
          /\ Len(response.body.binaries) < Len(BinariesOf(Without(p)))

-----------------------------------------------------------------------------
(* Properties of the grouping by name and of the pagination.               *)

\* The orderings of the references the registry holds.
Orderings(refs) ==
    {[i \in DOMAIN refs |-> refs[f[i]]] : f \in Permutations(DOMAIN refs)}

\* The greatest version string among the references of a name.
GreatestVersion(name) == StrMax({registry.refs[k].version : k \in Named(name)})

\* C12 (as claimed): the package summaries (name, latest_version,
\* total_versions, created) returned for one enumeration order of the
\* references are those returned for every other order of the same
\* references, and latest_version is the greatest version string of the
\* name.  (Equal version strings are the only ties, and they give the same
\* latest_version.)
C12_GroupingOrderIndependent ==
    PackagesReturned =>
        /\ \A refs \in Orderings(registry.refs) :
              PackagesBody(refs, request).packages = response.body.packages
        /\ \A i \in DOMAIN response.body.packages :
              response.body.packages[i].latest_version
                  = GreatestVersion(response.body.packages[i].name)

\* The packages of page k for the request of the state, over the same registry.
PageOf(k) == PackagesBody(registry.refs, [request EXCEPT !.page = k]).packages

\* Pages 1..k one after the other.
RECURSIVE PagesUpTo(_)
PagesUpTo(k) == IF k = 0 THEN <<>> ELSE PagesUpTo(k - 1) \o PageOf(k)

\* ceil(total / per_page)
PageCount == (response.body.total + request.per_page - 1) \div request.per_page

\* The names the registry holds that the search query selects.
SelectedNames ==
    {name \in {registry.refs[k].name : k \in DOMAIN registry.refs} :
        request.q = "" \/ Contains(Lower(Ord(request.q)), Lower(Ord(name)))}

\* A sequence of package summaries in ascending order of the lower-cased name.
NameSorted(packages) ==
    \A i, j \in DOMAIN packages :
        i < j => ~SeqLess(Lower(Ord(packages[j].name)), Lower(Ord(packages[i].name)))

\* C13: the pages 1..ceil(total/per_page) put one after the other are the
\* case-insensitively name-sorted packages, each selected name once; the
\* response holds the page asked for; a page beyond the last is an empty
\* list in a successful response; and total is the number of packages before
\* slicing, in every page.
C13_PaginationCovers ==
    (request.endpoint = "packages" /\ response.status # 503
        /\ validate_remote_name(request.remote_name) = 0 /\ registry.up) =>
        /\ response.status = 200
        /\ response.body.total = Cardinality(SelectedNames)
        /\ Len(PagesUpTo(PageCount)) = response.body.total
        /\ {pkg.name : pkg \in Range(PagesUpTo(PageCount))} = SelectedNames
        /\ NameSorted(PagesUpTo(PageCount))
        /\ response.body.packages = PageOf(request.page)
        /\ Len(response.body.packages) <= request.per_page
        /\ request.page > PageCount => response.body.packages = <<>>
        /\ \A k \in 1..(PageCount + 1) :
              PackagesBody(registry.refs, [request EXCEPT !.page = k]).total
                  = response.body.total

\* A page after the first that holds a package, of a list of several pages
\* whose order differs from the case-sensitive order.
C13_Witness ==
    /\ PackagesReturned
    /\ request.page > 1
    /\ response.body.packages # <<>>
    /\ PageCount >= 3
    /\ \E i, j \in DOMAIN PagesUpTo(PageCount) :
          /\ i < j
          /\ StrLess(PagesUpTo(PageCount)[j].name, PagesUpTo(PageCount)[i].name)

-----------------------------------------------------------------------------
(* Properties of the shared handle.                                        *)

\* A step in which a request is answered.
Answered == request = NoRequest /\ request' # NoRequest

\* Only startup writes the handle: without one after startup there is never
\* one, and a handle once built stays.
HandleSettled ==
    /\ (conan_api = None /\ lifecycle = "running") => conan_api' = None
    /\ conan_api # None => conan_api' # None

\* What C14 says of a step, for the endpoints `endpoints`.
UnavailableUntilInitialized(endpoints) ==
    /\ (Answered /\ conan_api = None /\ request'.endpoint \in endpoints) =>
          /\ response'.status = 503
          /\ response'.calls = <<>>
    /\ (Answered /\ conan_api # None) => response'.status # 503
    /\ HandleSettled

Endpoints ==
    {"root", "health", "repositories", "packages", "versions", "configuration",
     "filter-options", "binaries"}

\* C14 (as claimed): while there is no handle (before startup, or forever
\* after a failed startup) a request to any endpoint is answered 503 without
\* a registry call; with a handle no request is answered 503.
C14_EveryEndpointUnavailable == [][UnavailableUntilInitialized(Endpoints)]_vars

\* C14 (amended): the same for every endpoint but GET /, which does not
\* depend on the handle: without one it answers 200, reports
\* conan_api_available false and makes no registry call.
C14_DependentEndpointsUnavailable ==
    [][/\ UnavailableUntilInitialized(Endpoints \ {"root"})
       /\ (Answered /\ conan_api = None /\ request'.endpoint = "root") =>
             /\ response'.status = 200
             /\ response'.body.conan_api_available = FALSE
             /\ response'.calls = <<>>]_vars

\* A request answered 503 after a failed startup.
C14_Witness ==
    /\ conan_api = None
    /\ lifecycle = "running"
    /\ request # NoRequest
    /\ request.endpoint = "binaries"
    /\ response.status = 503

-----------------------------------------------------------------------------
(* Requests in flight at once.                                             *)

Clients == 1..MaxClients

\* The handler of an endpoint, applied to the arguments of a request.
HandlerOf(args) ==
    CASE args.endpoint = "root" -> root
      [] args.endpoint = "health" -> health_check
      [] args.endpoint = "repositories" -> list_repositories
      [] args.endpoint = "packages" -> list_packages(args)
      [] args.endpoint = "versions" -> get_package_versions(args)
      [] args.endpoint = "configuration" -> get_package_configuration(args)
      [] args.endpoint = "filter-options" -> get_package_filter_options(args)
      [] args.endpoint = "binaries" -> get_package_binaries(args)

\* The endpoints declared with Depends(get_conan_api).
DependsOnHandle(args) == args.endpoint # "root"

\* The requests the clients send.
ConcurrentRequests ==
    {Args("root", None, None, None),
     Args("health", None, None, None),
     Args("packages", CUSTOM_REMOTE_NAME, None, None),
     Args("versions", "other", "foo", None),
     Args("filter-options", CUSTOM_REMOTE_NAME, "foo", "1.0"),
     Args("binaries", CUSTOM_REMOTE_NAME, "foo", "1.0"),
     [Args("binaries", CUSTOM_REMOTE_NAME, "foo", "1.0") EXCEPT !.os = "Linux"],
     [Args("configuration", CUSTOM_REMOTE_NAME, "foo", "1.0") EXCEPT !.package_id = "p1"]}

\* The server accepts a request of a client: a task on the event loop.
Accept(c, args) ==
    /\ tasks[c].phase = "idle"
    /\ tasks' = [tasks EXCEPT ![c] = [phase |-> "accepted", args |-> args,
                                      response |-> NoResponse]]
    /\ UNCHANGED <<conan_api, lifecycle, remotes, registry, request, response>>

\* get_conan_api runs for the task: 503 without a handle, else the handle
\* is handed to the handler.
Resolve(c) ==
    /\ tasks[c].phase = "accepted"
    /\ DependsOnHandle(tasks[c].args)
    /\ tasks' = [tasks EXCEPT ![c] =
                    IF conan_api = None
                    THEN [@ EXCEPT !.phase = "answered", !.response = Unavailable]
                    ELSE [@ EXCEPT !.phase = "resolved"]]
    /\ UNCHANGED <<conan_api, lifecycle, remotes, registry, request, response>>

\* A handler that takes its arguments from a buffer the tasks share.
RunShared(c) ==
    /\ \/ tasks[c].phase = "resolved"
       \/ tasks[c].phase = "accepted" /\ ~DependsOnHandle(tasks[c].args)
    /\ \E d \in Clients :
          /\ tasks[d].phase \in {"accepted", "resolved"}
          /\ tasks' = [tasks EXCEPT ![c] = [@ EXCEPT !.phase = "answered",
                          !.response = Boundary(HandlerOf(tasks[d].args))]]
    /\ UNCHANGED <<conan_api, lifecycle, remotes, registry, request, response>>

\* The handler body runs for the task, from its first line to its return:
\* it has no await.
Run(c) ==
    /\ \/ tasks[c].phase = "resolved"
       \/ tasks[c].phase = "accepted" /\ ~DependsOnHandle(tasks[c].args)
    /\ tasks' = [tasks EXCEPT ![c] = [@ EXCEPT !.phase = "answered",
                    !.response = Boundary(HandlerOf(tasks[c].args))]]
    /\ UNCHANGED <<conan_api, lifecycle, remotes, registry, request, response>>

\* The response of the task goes to its client.
Complete(c) ==
    /\ tasks[c].phase = "answered"
    /\ tasks' = [tasks EXCEPT ![c] = IdleTask]
    /\ UNCHANGED <<conan_api, lifecycle, remotes, registry, request, response>>

InitConcurrent == Loaded({RefFooR1})

NextConcurrent ==
    \/ Startup
    \/ \E c \in Clients : \E args \in ConcurrentRequests : Accept(c, args)
    \/ \E c \in Clients : Resolve(c)
    \/ \E c \in Clients : Run(c)
    \/ \E c \in Clients : Complete(c)

\* The service with requests of several clients in flight.
SpecConcurrent == InitConcurrent /\ [][NextConcurrent]_vars

\* The response of a request handled alone in the state: what Handle, or
\* Root, answers.
Alone(args) ==
    IF DependsOnHandle(args) /\ conan_api = None THEN Unavailable
    ELSE Boundary(HandlerOf(args))

-----------------------------------------------------------------------------
(* Properties of the revision resolution.                                  *)

\* A sequence of str values in strictly descending order.
StrictlyDescending(s) == \A i, j \in DOMAIN s : i < j => StrLess(s[j], s[i])

\* C16: recipe_revisions holds the non-empty revisions of the references of
\* the package version, each once, in descending string order, and
\* latest_revision is its first element, or absent when there is none; the
\* revisions "2", "10" and "1" give "2" as the latest.
C16_RevisionsDescending ==
    BinariesReturned =>
        /\ Range(response.body.revision_info.recipe_revisions)
              = {r.revision : r \in {x \in Matching : x.revision \notin {None, ""}}}
        /\ StrictlyDescending(response.body.revision_info.recipe_revisions)
        /\ response.body.revision_info.latest_revision
              = IF response.body.revision_info.recipe_revisions = <<>> THEN None
                ELSE response.body.revision_info.recipe_revisions[1]
        /\ Range(response.body.revision_info.recipe_revisions) = {"2", "10", "1"}
              => response.body.revision_info.latest_revision = "2"

\* A registry that holds the revisions "2", "10" and "1".
C16_Witness ==
    /\ BinariesReturned
    /\ response.body.revision_info.recipe_revisions = <<"2", "10", "1">>
    /\ response.body.revision_info.latest_revision = "2"

-----------------------------------------------------------------------------
(* Properties of the filter discovery.                                     *)

FilterOptionsReturned == request.endpoint = "filter-options" /\ response.status = 200

\* A sequence of str values in strictly ascending order.
StrictlyAscending(s) == \A i, j \in DOMAIN s : i < j => StrLess(s[i], s[j])

\* The settings of the configurations fetched for the references of the
\* requested package version.
ObservedSettings ==
    {IF "settings" \in DOMAIN r.configs[id] THEN r.configs[id]["settings"] ELSE EmptyDict :
        <<r, id>> \in {<<x, y>> \in Matching \X {"p1", "p2", "p3"} :
                          ~x.fetch_fails /\ y \in DOMAIN x.configs}}

\* The non-empty values of a setting over the observed settings `among`.
ObservedValues(among, key) ==
    {settings[key] : settings \in {x \in among : key \in DOMAIN x /\ x[key] \notin {None, ""}}}

\* C17 (as claimed): each of os, arch, compiler and build_type is the
\* ascending list of the distinct non-empty values observed for it, and
\* compiler_versions maps each compiler of the compiler list to the
\* ascending list of the distinct non-empty compiler.version values observed
\* together with it.
C17_DiscoveryExact ==
    FilterOptionsReturned =>
        /\ \A key \in {"os", "arch", "compiler", "build_type"} :
              /\ StrictlyAscending(response.body.filter_options[key])
              /\ Range(response.body.filter_options[key])
                    = ObservedValues(ObservedSettings, key)
        /\ DOMAIN response.body.compiler_versions
              = Range(response.body.filter_options.compiler)
        /\ \A compiler \in DOMAIN response.body.compiler_versions :
              /\ StrictlyAscending(response.body.compiler_versions[compiler])
              /\ Range(response.body.compiler_versions[compiler])
                    = ObservedValues({x \in ObservedSettings :
                                         "compiler" \in DOMAIN x /\ x["compiler"] = compiler},
                                     "compiler.version")

-----------------------------------------------------------------------------
(* Properties of get_package_configuration.                                *)

\* A configuration request for which the configuration map of the resolved
\* reference was fetched.
ConfigurationFetched ==
    /\ request.endpoint = "configuration"
    /\ response.status # 503
    /\ validate_remote_name(request.remote_name) = 0
    /\ registry.up
    /\ Truthy(request.package_id)
    /\ TargetRefs(request) # {}
    /\ \A r \in TargetRefs(request) : ~r.fetch_fails

\* C18 (as claimed): the handler returns a detail record exactly when the
\* package_id is that of a binary in the fetched configuration map; the
\* record carries that binary's settings, options and requires, also when
\* its configuration is an empty mapping; any other package_id raises
\* not-found.
C18_DetailIffMatched ==
    ConfigurationFetched =>
        \A ref \in TargetRefs(request) :
            IF request.package_id \in DOMAIN ref.configs
            THEN /\ response.raised = None
                 /\ response.body.settings
                       = Get(ref.configs[request.package_id], "settings", EmptyDict)
                 /\ response.body.options
                       = Get(ref.configs[request.package_id], "options", EmptyDict)
                 /\ response.body.requires
                       = Get(ref.configs[request.package_id], "requires", EmptyList)
            ELSE /\ response.raised = "HTTPException"
                 /\ response.code = 404

-----------------------------------------------------------------------------
(* Discovery against application.                                          *)

\* The binaries request for the package version of the state's request with
\* the one predicate `key` set to `value` and no other argument.
OnlyPredicate(key, value) ==
    [Args("binaries", request.remote_name, request.package_name, request.version)
        EXCEPT ![key] = value]

\* C19 (as claimed): every value the filter discovery returns for os, arch,
\* compiler or build_type is the setting of at least one binary that
\* get_package_binaries returns, over the same registry, for the request
\* with that predicate alone.
C19_DiscoveredValuesApply ==
    FilterOptionsReturned =>
        \A key \in {"os", "arch", "compiler", "build_type"} :
            \A v \in Range(response.body.filter_options[key]) :
                \E b \in Range(BinariesOf(OnlyPredicate(key, v))) :
                    key \in DOMAIN b.settings /\ b.settings[key] = v

====
